---------------------------- MODULE Spec2Model ----------------------------
(***************************************************************************)
(* A model of src/src/connecticut.py: the sequential ASP.NET postback      *)
(* scraper (initial GET, page-1 search postback, Page$N postbacks, table   *)
(* extraction, concatenation, de-duplication, CSV output).                 *)
(*                                                                         *)
(* A response text is represented by what the program's regular            *)
(* expressions and substring tests can see in it:                          *)
(*   pageRedirect, errorPage : the two substrings of is_error_redirect     *)
(*   fields  : the |hiddenField|NAME|VALUE| blocks, in text order          *)
(*   panels  : the |updatePanel|ID|HTML| blocks, in text order; each one   *)
(*             either holds the results table or does not                  *)
(*   markers : the numbers N of the Page$N occurrences, in text order      *)
(***************************************************************************)
EXTENDS Naturals, Sequences, FiniteSets, TLC

VARIABLES
    pc,        \* where main() stands
    failure,   \* which exception ended the run ("none": none did)
    hidden,    \* the session-state dict
    delta,     \* the response text last read
    df_all,    \* the page frames collected so far
    max_page,  \* the page count read from the first response
    p,         \* the page being fetched
    files,     \* the debug files under outputs/
    output,    \* the primary output file
    \* what the run has seen and done, recorded to state the properties
    getOk,     \* whether the initial GET had a success status
    landing,   \* the document the initial GET answered with
    first,     \* the first postback's response
    posts,     \* the postbacks issued, in order
    received,  \* per response read: its two markers and its hiddenField blocks
    nRefresh,  \* how many times update_hidden_from_delta has run
    nParse     \* how many times extract_table_df has run

vars == <<pc, failure, hidden, delta, df_all, max_page, p, files, output,
          getOk, landing, first, posts, received, nRefresh, nParse>>

----------------------------------------------------------------------------
(* Bounds of the model *)

\* largest page number a Page$N marker of a response names
MaxPage == 3
\* SpecRefresh: most |hiddenField| blocks in one response
MaxFields == 2
\* SpecParse: most <tr> rows in one table, most <td> cells in one generated row
MaxRows == 2
MaxCells == 3

----------------------------------------------------------------------------
(* Program constants *)

UPDATE_PANEL_TARGET == "ctl00$MainContentPlaceHolder$ucLicenseLookup$UpdtPanelGridLookup"
GRID_TARGET == "ctl00$MainContentPlaceHolder$ucLicenseLookup$gvSearchResults"
INITIAL_SEARCH_EVENT_ARGUMENT == "11~~2~~7~~41"
FALLBACK_HEADERS ==
    <<"Detail", "Name", "Credential", "Credential Description", "Status",
      "Status Reason", "City", "DBA">>

VIEWSTATE == "__VIEWSTATE"
VIEWSTATEGENERATOR == "__VIEWSTATEGENERATOR"
EVENTVALIDATION == "__EVENTVALIDATION"
VIEWSTATEENCRYPTED == "__VIEWSTATEENCRYPTED"

\* the four fields parse_hidden_fields_from_html looks for, in its order
HiddenFieldNames == <<VIEWSTATE, VIEWSTATEGENERATOR, EVENTVALIDATION, VIEWSTATEENCRYPTED>>
\* variant: the refresh loops over all four fields
RefreshKeys_All == <<VIEWSTATE, VIEWSTATEGENERATOR, EVENTVALIDATION, VIEWSTATEENCRYPTED>>

\* the three keys update_hidden_from_delta refreshes, in its order
RefreshKeys == <<VIEWSTATE, EVENTVALIDATION, VIEWSTATEENCRYPTED>>

\* a cell whose only text is a non-breaking space
NBSP == "&nbsp;"
\* pandas' missing value, which concat fills in for a column a frame lacks
NaN == "<NaN>"

Range(s) == {s[i] : i \in 1..Len(s)}

\* the sequence f[1], ..., f[n]
RECURSIVE ToSeq(_, _)
ToSeq(f, n) == IF n = 0 THEN <<>> ELSE Append(ToSeq(f, n - 1), f[n])

----------------------------------------------------------------------------
(* Pure functions *)

\* is_error_redirect
is_error_redirect(d) == d.pageRedirect /\ d.errorPage

\* a landing document gives, per element id, "absent", "novalue" (the element
\* has no value attribute) or <<value>>
ElementHasValue(doc, field) == doc[field] \notin {<<"absent">>, <<"novalue">>}

\* variant: an element without value attribute counts, with an empty value
parse_hidden_fields_keep_valueless(doc) ==
    [f \in {g \in Range(HiddenFieldNames) : doc[g] # <<"absent">>} |->
        IF doc[f] = <<"novalue">> THEN "" ELSE doc[f][2]]

\* parse_hidden_fields_from_html: a dict holding the fields found with a value
parse_hidden_fields_from_html(doc) ==
    [f \in {g \in Range(HiddenFieldNames) : ElementHasValue(doc, g)} |-> doc[f][2]]

\* re.search over the text: the value of the first block of that name, or None
RECURSIVE FirstField(_, _)
FirstField(fs, name) ==
    IF fs = <<>> THEN [found |-> FALSE, value |-> ""]
    ELSE IF Head(fs).name = name THEN [found |-> TRUE, value |-> Head(fs).value]
    ELSE FirstField(Tail(fs), name)

hidden_from_delta(d, field_name) == FirstField(d.fields, field_name)

\* hidden[key] = val
DictSet(h, key, val) ==
    [k \in (DOMAIN h) \cup {key} |-> IF k = key THEN val ELSE h[k]]

\* hidden.get(key, "")
DictGet(h, key) == IF key \in DOMAIN h THEN h[key] ELSE ""

\* variant: "if val is not None:", which lets an empty value through
RefreshKey_NotNone(h, d, key) ==
    LET m == hidden_from_delta(d, key)
    IN  IF m.found THEN DictSet(h, key, m.value) ELSE h

\* one iteration of the loop of update_hidden_from_delta: "if val:" is false
\* for None and for the empty string
RefreshKey(h, d, key) ==
    LET m == hidden_from_delta(d, key)
    IN  IF m.found /\ m.value # "" THEN DictSet(h, key, m.value) ELSE h

RECURSIVE RefreshLoop(_, _, _)
RefreshLoop(h, d, keys) ==
    IF keys = <<>> THEN h
    ELSE RefreshLoop(RefreshKey(h, d, Head(keys)), d, Tail(keys))

update_hidden_from_delta(h, d) == RefreshLoop(h, d, RefreshKeys)

\* the four state tokens of the payload ajax_postback builds
PayloadTokens(h) == [k \in Range(HiddenFieldNames) |-> DictGet(h, k)]

RECURSIVE SeqMax(_)
SeqMax(s) ==
    IF Len(s) = 1 THEN s[1]
    ELSE LET m == SeqMax(Tail(s)) IN IF s[1] >= m THEN s[1] ELSE m

\* variant: the last marker of the text instead of the largest
extract_last_page(d) == IF d.markers # <<>> THEN d.markers[Len(d.markers)] ELSE 1

\* extract_max_page
extract_max_page(d) == IF d.markers # <<>> THEN SeqMax(d.markers) ELSE 1

\* get_text(strip=True).replace("\xa0", "")
CleanText(raw) == IF raw = NBSP THEN "" ELSE raw

CleanCells(cells) == ToSeq([i \in 1..Len(cells) |-> CleanText(cells[i])], Len(cells))

\* lines 131-138: the declared header, its blank first cell renamed, or the
\* fallback schema
TableHeaders(table) ==
    IF table.hasHeaderRow /\ table.th # <<>>
    THEN LET hs == CleanCells(table.th)
         IN  IF hs[1] = "" THEN <<"Detail">> \o Tail(hs) ELSE hs
    ELSE FALLBACK_HEADERS

\* variant: a short row is let through
RowKept_AtMost(row, headers) == Len(row) <= Len(headers)

\* line 146: which rows are appended
RowKept(row, headers) == Len(row) = Len(headers)

\* lines 140-147
RECURSIVE TableRows(_, _)
TableRows(trs, headers) ==
    IF trs = <<>> THEN <<>>
    ELSE LET tds == Head(trs)
             rest == TableRows(Tail(trs), headers)
         IN  IF tds = <<>> THEN rest
             ELSE IF RowKept(CleanCells(tds), headers)
                  THEN <<CleanCells(tds)>> \o rest
                  ELSE rest

\* pd.DataFrame(rows, columns=headers)
DataFrame(rows, columns) == [columns |-> columns, rows |-> rows]

\* variant: "df is None", which no frame is
DfEmpty_IsNone(df) == FALSE

\* df.empty
DfEmpty(df) == df.rows = <<>> \/ df.columns = <<>>

\* the first panel that holds the results table (0: none does)
RECURSIVE FirstTablePanel(_, _)
FirstTablePanel(panels, i) ==
    IF i > Len(panels) THEN 0
    ELSE IF panels[i].hasTable THEN i
    ELSE FirstTablePanel(panels, i + 1)

\* extract_table_df: the outcome and, when a table was found, its frame
extract_table_df(d) ==
    IF d.panels = <<>> THEN [kind |-> "no_update_panels"]
    ELSE LET i == FirstTablePanel(d.panels, 1)
         IN  IF i = 0 THEN [kind |-> "no_results_table"]
             ELSE LET table == d.panels[i]
                      headers == TableHeaders(table)
                  IN  [kind |-> "ok", table |-> table,
                       df |-> DataFrame(TableRows(table.trs, headers), headers)]


\* position of a column name in a header
IndexOf(s, x) == CHOOSE i \in 1..Len(s) : s[i] = x

\* variant: the columns of the first frame only
UnionColumns_FirstOnly(cols, dfs) == IF dfs = <<>> THEN cols ELSE Head(dfs).columns

\* the column index pd.concat builds (join="outer", sort=False): the first
\* frame's columns, then each later frame's new names in order of appearance
RECURSIVE UnionColumns(_, _)
UnionColumns(cols, dfs) ==
    IF dfs = <<>> THEN cols
    ELSE LET IsNew(c) == c \notin Range(cols)
         IN  UnionColumns(cols \o SelectSeq(Head(dfs).columns, IsNew), Tail(dfs))

\* a frame's rows laid out on the combined columns, NaN where it has none
Reindex(df, cols) ==
    ToSeq([r \in 1..Len(df.rows) |->
              ToSeq([j \in 1..Len(cols) |->
                        IF cols[j] \in Range(df.columns)
                        THEN df.rows[r][IndexOf(df.columns, cols[j])]
                        ELSE NaN],
                    Len(cols))],
          Len(df.rows))

RECURSIVE ConcatRows(_, _)
ConcatRows(dfs, cols) ==
    IF dfs = <<>> THEN <<>>
    ELSE Reindex(Head(dfs), cols) \o ConcatRows(Tail(dfs), cols)

\* pd.concat(df_all, ignore_index=True)
Concat(dfs) ==
    LET cols == UnionColumns(<<>>, dfs)
    IN  DataFrame(ConcatRows(dfs, cols), cols)

\* which occurrence DataFrame.drop_duplicates keeps (keep="first"): a row is
\* dropped when an equal row has been seen before it
IsDuplicate(row, seen) == row \in seen

RECURSIVE DropLoop(_, _)
DropLoop(rows, seen) ==
    IF rows = <<>> THEN <<>>
    ELSE IF IsDuplicate(Head(rows), seen)
         THEN DropLoop(Tail(rows), seen)
         ELSE <<Head(rows)>> \o DropLoop(Tail(rows), seen \cup {Head(rows)})

\* df.drop_duplicates()
drop_duplicates(df) == DataFrame(DropLoop(df.rows, {}), df.columns)

\* variant: duplicates dropped within each page before concatenating
RECURSIVE DropEach(_)
DropEach(dfs) ==
    IF dfs = <<>> THEN <<>> ELSE <<drop_duplicates(Head(dfs))>> \o DropEach(Tail(dfs))

Aggregate_PerPage(dfs) == Concat(DropEach(dfs))

\* line 247
Aggregate(dfs) == drop_duplicates(Concat(dfs))

\* df.to_csv(OUTPUT_CSV, index=False): the header line and one line per row,
\* a missing value written as the empty string
to_csv(df) ==
    [header |-> df.columns,
     lines  |-> ToSeq([r \in 1..Len(df.rows) |->
                          ToSeq([j \in 1..Len(df.rows[r]) |->
                                    IF df.rows[r][j] = NaN THEN "" ELSE df.rows[r][j]],
                                Len(df.rows[r]))],
                      Len(df.rows))]

\* save_debug(filename, text): the file is created or overwritten
save_debug(fs, filename, text) ==
    [n \in (DOMAIN fs) \cup {filename} |-> IF n = filename THEN text ELSE fs[n]]

\* the debug file names; the per-page one carries the page number
DEBUG_INITIAL_GET == <<"debug_initial_get.html", 0>>
DEBUG_ERROR_REDIRECT == <<"debug_error_redirect.txt", 0>>
DEBUG_NO_UPDATE_PANELS == <<"debug_no_update_panels.txt", 0>>
DEBUG_NO_RESULTS_TABLE == <<"debug_no_results_table.txt", 0>>
DEBUG_EMPTY_DELTA == <<"debug_empty_delta.txt", 0>>
DEBUG_EMPTY_TABLE == <<"debug_empty_table.html", 0>>
DebugErrorRedirectPage(n) == <<"debug_error_redirect_page_N.txt", n>>

\* the debug files extract_table_df writes for this response
ParseDebug(fs, d) ==
    LET res == extract_table_df(d)
    IN  IF res.kind = "no_update_panels" THEN save_debug(fs, DEBUG_NO_UPDATE_PANELS, d)
        ELSE IF res.kind = "no_results_table" THEN save_debug(fs, DEBUG_NO_RESULTS_TABLE, d)
        ELSE IF DfEmpty(res.df)
             THEN save_debug(save_debug(fs, DEBUG_EMPTY_DELTA, d), DEBUG_EMPTY_TABLE, res.table)
             ELSE fs

----------------------------------------------------------------------------
(* What the server can answer *)

Absent == <<"absent">>
NoValue == <<"novalue">>
Value(v) == <<"value", v>>

\* landing documents: each element absent, without a value attribute, or
\* carrying a value
LandingDocs ==
    { [f \in Range(HiddenFieldNames) |->
          CASE f = VIEWSTATE -> vs
            [] f = VIEWSTATEGENERATOR -> vsg
            [] f = EVENTVALIDATION -> opt[1]
            [] OTHER -> opt[2]] :
      vs \in {Absent, NoValue, Value("v0")},
      vsg \in {Absent, Value("g0")},
      opt \in { <<Value("e0"), Value("")>>, <<Absent, Absent>> } }

Field(name, value) == [name |-> name, value |-> value]
NoTable == [hasTable |-> FALSE]
Table(hasHeaderRow, th, trs) ==
    [hasTable |-> TRUE, hasHeaderRow |-> hasHeaderRow, th |-> th, trs |-> trs]
Response(pageRedirect, errorPage, fields, panels, markers) ==
    [pageRedirect |-> pageRedirect, errorPage |-> errorPage, fields |-> fields,
     panels |-> panels, markers |-> markers]

Row8(x) == <<"d", x, "c", "dentist", "ACTIVE", "", "Hartford", "">>

\* a declared header (blank first cell), two data rows after the header's own <tr>
TableA1 == Table(TRUE, <<NBSP, "Name">>, << <<>>, <<"d", "x">>, <<"d", "y">> >>)
\* the same header; a repeated row and a stray one-cell row
TableA2 == Table(TRUE, <<NBSP, "Name">>, << <<"d", "y">>, <<"pager">>, <<"d", "y">>, <<"d", "z">> >>)
\* no header row: the fallback schema keeps the eight-cell row only
TableF == Table(FALSE, <<>>, << Row8("x"), <<"d", "x">> >>)
\* the columns of TableA1 declared in the other order
TableB == Table(TRUE, <<"Name", "Detail">>, << <<"x", "d">>, <<"w", "d">> >>)
\* no row fits the header
TableE == Table(TRUE, <<NBSP, "Name">>, << <<>>, <<"No records found">> >>)

FieldPool ==
    { <<>>,
      <<Field(VIEWSTATE, "v2")>>,
      <<Field(VIEWSTATE, ""), Field(EVENTVALIDATION, "e1"), Field(VIEWSTATE, "v9")>>,
      <<Field(VIEWSTATEGENERATOR, "g1"), Field(VIEWSTATEENCRYPTED, "t1")>> }

PanelPool ==
    { <<>>, <<NoTable>>, <<NoTable, TableA1>>, <<TableA2>>, <<TableF>>,
      <<TableB>>, <<TableE>> }

MarkerPool ==
    { <<>>, <<0>>, <<1>> } \cup { <<n>> : n \in 2..MaxPage } \cup { <<1, MaxPage, 2>> }

PlainBody == Response(FALSE, FALSE, <<Field(VIEWSTATE, "v3")>>, <<TableA1>>, <<2>>)

\* every token block with one table, every panel layout without token
\* blocks, three tables with every marker list, and one body with each
\* combination of the two error-redirect substrings present
Responses ==
    { Response(FALSE, FALSE, f, <<TableA2>>, <<>>) : f \in FieldPool }
    \cup { Response(FALSE, FALSE, <<>>, pn, <<>>) : pn \in PanelPool }
    \cup { Response(FALSE, FALSE, <<Field(VIEWSTATE, "v1")>>, pn, m) :
             pn \in { <<TableA1>>, <<TableF>>, <<TableE>> }, m \in MarkerPool }
    \cup ({ Response(a, b, <<Field(VIEWSTATE, "v3")>>, <<TableA1>>, <<2>>) :
               a \in BOOLEAN, b \in BOOLEAN } \ {PlainBody})

----------------------------------------------------------------------------
(* The run of main() *)

NoDelta == Response(FALSE, FALSE, <<>>, <<>>, <<>>)
NoOutput == [written |-> FALSE]
Written(csv) == [written |-> TRUE, csv |-> csv]
EmptyDict == [k \in {} |-> ""]

Init ==
    /\ pc = "start"
    /\ failure = "none"
    /\ getOk = FALSE
    /\ landing = [f \in Range(HiddenFieldNames) |-> Absent]
    /\ hidden = EmptyDict
    /\ delta = NoDelta
    /\ df_all = <<>>
    /\ max_page = 1
    /\ p = 1
    /\ posts = <<>>
    /\ first = NoDelta
    /\ received = <<>>
    /\ nRefresh = 0
    /\ nParse = 0
    /\ files = [n \in {} |-> NoDelta]
    /\ output = NoOutput

Fail(kind) == pc' = "failed" /\ failure' = kind

\* lines 197 and 98-108: initial_get
InitialGet ==
    /\ pc = "start"
    /\ \E ok \in BOOLEAN, doc \in LandingDocs :
        /\ getOk' = ok
        /\ landing' = doc
        /\ IF ~ok
           THEN Fail("http_get") /\ UNCHANGED <<hidden, files>>
           ELSE LET h == parse_hidden_fields_from_html(doc)
                IN  IF VIEWSTATE \notin DOMAIN h \/ VIEWSTATEGENERATOR \notin DOMAIN h
                    THEN /\ files' = save_debug(files, DEBUG_INITIAL_GET, doc)
                         /\ Fail("missing_viewstate")
                         /\ UNCHANGED hidden
                    ELSE /\ hidden' = h
                         /\ pc' = "post1"
                         /\ UNCHANGED <<failure, files>>
    /\ UNCHANGED <<delta, df_all, max_page, p, first, posts, received, nRefresh, nParse, output>>

\* lines 161-184: ajax_postback, the request sent and the answer read
ajax_postback(event_target, event_argument) ==
    /\ posts' = Append(posts, [target |-> event_target, argument |-> event_argument,
                                tokens |-> PayloadTokens(hidden)])
    /\ \E ok \in BOOLEAN, r \in Responses :
        IF ~ok
        THEN Fail("http_post") /\ UNCHANGED <<delta, first, received>>
        ELSE /\ delta' = r
             /\ first' = IF received = <<>> THEN r ELSE first
             /\ received' = Append(received, [pageRedirect |-> r.pageRedirect,
                                               errorPage |-> r.errorPage,
                                               fields |-> r.fields])
             /\ pc' = "check"
             /\ UNCHANGED failure

\* lines 200-205
InitialSearch ==
    /\ pc = "post1"
    /\ ajax_postback(UPDATE_PANEL_TARGET, INITIAL_SEARCH_EVENT_ARGUMENT)
    /\ UNCHANGED <<getOk, landing, hidden, df_all, max_page, p, nRefresh, nParse, files, output>>

\* the argument f"Page${p}"
PageArgument(n) == <<"Page$", n>>

\* lines 233-236: the next iteration of range(2, max_page + 1)
PagePostback ==
    /\ pc = "loop"
    /\ p <= max_page
    /\ ajax_postback(GRID_TARGET, PageArgument(p))
    /\ UNCHANGED <<getOk, landing, hidden, df_all, max_page, p, nRefresh, nParse, files, output>>

\* variant: the tokens are refreshed before the redirect check
CheckRedirect_RefreshFirst ==
    /\ pc = "check"
    /\ hidden' = update_hidden_from_delta(hidden, delta)
    /\ IF is_error_redirect(delta)
       THEN /\ files' = save_debug(files,
                           IF p = 1 THEN DEBUG_ERROR_REDIRECT ELSE DebugErrorRedirectPage(p),
                           delta)
            /\ Fail("error_redirect")
       ELSE /\ pc' = "refresh"
            /\ UNCHANGED <<failure, files>>
    /\ UNCHANGED <<getOk, landing, delta, df_all, max_page, p, first, posts, received,
                   nRefresh, nParse, output>>

\* lines 207-213 and 237-239
CheckRedirect ==
    /\ pc = "check"
    /\ IF is_error_redirect(delta)
       THEN /\ files' = save_debug(files,
                           IF p = 1 THEN DEBUG_ERROR_REDIRECT ELSE DebugErrorRedirectPage(p),
                           delta)
            /\ Fail("error_redirect")
       ELSE /\ pc' = "refresh"
            /\ UNCHANGED <<failure, files>>
    /\ UNCHANGED <<getOk, landing, hidden, delta, df_all, max_page, p, first, posts, received,
                   nRefresh, nParse, output>>

\* lines 215 and 241
Refresh ==
    /\ pc = "refresh"
    /\ hidden' = update_hidden_from_delta(hidden, delta)
    /\ nRefresh' = nRefresh + 1
    /\ pc' = "parse"
    /\ UNCHANGED <<failure, getOk, landing, delta, df_all, max_page, p, first, posts, received,
                   nParse, files, output>>

\* lines 217-226: page 1 is parsed; an empty page 1 is written and the run ends
ParsePage1 ==
    /\ pc = "parse"
    /\ p = 1
    /\ nParse' = nParse + 1
    /\ files' = ParseDebug(files, delta)
    /\ LET res == extract_table_df(delta)
       IN  IF res.kind # "ok"
           THEN Fail(res.kind) /\ UNCHANGED <<df_all, output>>
           ELSE IF DfEmpty(res.df)
                THEN /\ output' = Written(to_csv(res.df))
                     /\ pc' = "done"
                     /\ UNCHANGED <<failure, df_all>>
                ELSE /\ df_all' = Append(df_all, res.df)
                     /\ pc' = "pages"
                     /\ UNCHANGED <<failure, output>>
    /\ UNCHANGED <<getOk, landing, hidden, delta, max_page, p, first, posts, received, nRefresh>>

\* lines 228-233: the page count is read from the first response
DetectPages ==
    /\ pc = "pages"
    /\ max_page' = extract_max_page(delta)
    /\ p' = 2
    /\ pc' = "loop"
    /\ UNCHANGED <<failure, getOk, landing, hidden, delta, df_all, first, posts, received,
                   nRefresh, nParse, files, output>>

\* variant: a page that cannot be parsed is skipped
ParsePage_SkipsBadPage ==
    /\ pc = "parse"
    /\ p > 1
    /\ nParse' = nParse + 1
    /\ files' = ParseDebug(files, delta)
    /\ LET res == extract_table_df(delta)
       IN  /\ df_all' = IF res.kind = "ok" THEN Append(df_all, res.df) ELSE df_all
           /\ p' = p + 1
           /\ pc' = "loop"
           /\ UNCHANGED failure
    /\ UNCHANGED <<getOk, landing, hidden, delta, max_page, first, posts, received, nRefresh, output>>

\* lines 243-245
ParsePage ==
    /\ pc = "parse"
    /\ p > 1
    /\ nParse' = nParse + 1
    /\ files' = ParseDebug(files, delta)
    /\ LET res == extract_table_df(delta)
       IN  IF res.kind # "ok"
           THEN Fail(res.kind) /\ UNCHANGED <<df_all, p>>
           ELSE /\ df_all' = Append(df_all, res.df)
                /\ p' = p + 1
                /\ pc' = "loop"
                /\ UNCHANGED failure
    /\ UNCHANGED <<getOk, landing, hidden, delta, max_page, first, posts, received, nRefresh, output>>

\* lines 247-249
WriteOutput ==
    /\ pc = "loop"
    /\ p > max_page
    /\ output' = Written(to_csv(Aggregate(df_all)))
    /\ pc' = "done"
    /\ UNCHANGED <<failure, getOk, landing, hidden, delta, df_all, max_page, p, first, posts,
                   received, nRefresh, nParse, files>>

Next ==
    \/ InitialGet
    \/ InitialSearch
    \/ CheckRedirect
    \/ Refresh
    \/ ParsePage1
    \/ DetectPages
    \/ PagePostback
    \/ ParsePage
    \/ WriteOutput

Spec == Init /\ [][Next]_vars

----------------------------------------------------------------------------
(* update_hidden_from_delta alone: any session state, any token blocks *)

\* the sequences over S of length at most n
RECURSIVE SeqsUpTo(_, _)
SeqsUpTo(S, n) ==
    IF n = 0 THEN {<<>>}
    ELSE LET shorter == SeqsUpTo(S, n - 1)
         IN  shorter \cup {Append(q, x) : q \in shorter, x \in S}

FieldBlocks == {Field(n, v) : n \in Range(HiddenFieldNames), v \in {"", "a", "b"}}

\* session states: the two mandatory tokens, any of the optional ones
HiddenPool ==
    { [k \in ks |-> IF k = VIEWSTATEGENERATOR THEN "g0" ELSE v] :
        ks \in {S \in SUBSET Range(HiddenFieldNames) :
                   VIEWSTATE \in S /\ VIEWSTATEGENERATOR \in S},
        v \in {"", "a", "c"} }

Summary(r) == [pageRedirect |-> r.pageRedirect, errorPage |-> r.errorPage, fields |-> r.fields]

\* the run right after its first response r passed the redirect check, the
\* session state being h
AfterFirstResponse(h, r, at) ==
    /\ pc = at
    /\ failure = "none"
    /\ getOk = TRUE
    /\ landing = [f \in Range(HiddenFieldNames) |->
                     IF f \in DOMAIN h THEN Value(h[f]) ELSE Absent]
    /\ delta = r
    /\ first = r
    /\ df_all = <<>>
    /\ max_page = 1
    /\ p = 1
    /\ posts = <<[target |-> UPDATE_PANEL_TARGET, argument |-> INITIAL_SEARCH_EVENT_ARGUMENT,
                  tokens |-> PayloadTokens(h)]>>
    /\ received = <<Summary(r)>>
    /\ nParse = 0
    /\ files = [n \in {} |-> NoDelta]
    /\ output = NoOutput

RefreshInit ==
    \E h \in HiddenPool, fs \in SeqsUpTo(FieldBlocks, MaxFields) :
        /\ hidden = h
        /\ nRefresh = 0
        /\ AfterFirstResponse(h, Response(FALSE, FALSE, fs, <<TableA1>>, <<>>), "refresh")

SpecRefresh == RefreshInit /\ [][Refresh]_vars

----------------------------------------------------------------------------
(* extract_table_df alone: any table *)

UniformRow(v, n) == ToSeq([i \in 1..n |-> v], n)
DataRow(n) == ToSeq([i \in 1..n |-> IF i = 1 THEN "d" ELSE "y"], n)

\* <tr> rows by their <td> texts: none, one to MaxCells cells, eight cells
RowPool ==
    { <<>>, Row8("x") }
    \cup { UniformRow(v, n) : v \in {"x", NBSP}, n \in 1..MaxCells }
    \cup { DataRow(n) : n \in 1..MaxCells }

\* header rows: none, one without <th>, and declared ones
TablePool ==
    { Table(FALSE, <<>>, trs) : trs \in SeqsUpTo(RowPool, MaxRows) }
    \cup { Table(TRUE, th, trs) :
             th \in { <<>>, <<"Name">>, <<NBSP, "Name">>, <<"License", NBSP, "City">> },
             trs \in SeqsUpTo(RowPool, MaxRows) }

ParsePanels ==
    { <<>>, <<NoTable>>, <<NoTable, NoTable>> }
    \cup { <<t>> : t \in TablePool }
    \cup { <<NoTable, t>> : t \in TablePool }
    \cup { <<t, TableF>> : t \in TablePool }

ParseInit ==
    \E pn \in ParsePanels :
        LET h == [k \in {VIEWSTATE, VIEWSTATEGENERATOR} |-> IF k = VIEWSTATE THEN "v0" ELSE "g0"]
        IN  /\ hidden = h
            /\ nRefresh = 1
            /\ AfterFirstResponse(h, Response(FALSE, FALSE, <<>>, pn, <<>>), "parse")

SpecParse == ParseInit /\ [][ParsePage1]_vars

----------------------------------------------------------------------------
(* Properties *)

MinOf(S) == CHOOSE m \in S : \A n \in S : m <= n
MaxOf(S) == CHOOSE m \in S : \A n \in S : n <= m

\* a response text holds both substrings
HoldsErrorRedirect(r) == r.pageRedirect /\ r.errorPage

\* the debug file of the error redirect answered to the k-th postback
RedirectFileOf(k) == IF k = 1 THEN DEBUG_ERROR_REDIRECT ELSE DebugErrorRedirectPage(k)

\* C1: a response holding both 'pageRedirect' and 'ErrorPage.aspx' is the
\* last one read: once it has been read the run is either about to check it
\* or has failed with the raw text saved; the session tokens are still the
\* ones the postback carried, neither the refresh nor the parser has run on
\* it, nothing has been collected from it and no further postback is issued.
C1_ErrorRedirectEndsRun ==
    \A k \in 1..Len(received) :
        HoldsErrorRedirect(received[k]) =>
            /\ k = Len(received)
            /\ Len(posts) = k
            /\ pc \in {"check", "failed"}
            /\ nRefresh = k - 1
            /\ nParse = k - 1
            /\ Len(df_all) = k - 1
            /\ PayloadTokens(hidden) = posts[k].tokens
            /\ output = NoOutput
            /\ pc = "failed" =>
                /\ failure = "error_redirect"
                /\ HoldsErrorRedirect(delta)
                /\ RedirectFileOf(k) \in DOMAIN files
                /\ files[RedirectFileOf(k)] = delta

\* an error redirect on a later page, whose text carries a fresh __VIEWSTATE
\* and a results table, has ended the run
C1_Witness ==
    /\ pc = "failed"
    /\ failure = "error_redirect"
    /\ Len(received) >= 2
    /\ HoldsErrorRedirect(delta)
    /\ \E i \in 1..Len(delta.fields) :
          /\ delta.fields[i].name = VIEWSTATE
          /\ delta.fields[i].value # ""
          /\ delta.fields[i].value # hidden[VIEWSTATE]
    /\ \E i \in 1..Len(delta.panels) : delta.panels[i].hasTable

\* the landing document has no element of that id carrying a value
LandingLacks(field) == landing[field] \in {Absent, NoValue}

\* C3: when the document the initial GET returned lacks __VIEWSTATE or
\* __VIEWSTATEGENERATOR, the run has failed, no POST has been issued, the
\* raw document is in debug_initial_get.html and the output file is not
\* written.
C3_MissingViewstateIsFatal ==
    (getOk /\ (LandingLacks(VIEWSTATE) \/ LandingLacks(VIEWSTATEGENERATOR))) =>
        /\ pc = "failed"
        /\ failure = "missing_viewstate"
        /\ posts = <<>>
        /\ received = <<>>
        /\ DEBUG_INITIAL_GET \in DOMAIN files
        /\ files[DEBUG_INITIAL_GET] = landing
        /\ output = NoOutput

\* the GET succeeded and answered a document with a generator but whose
\* __VIEWSTATE element has no value
C3_Witness ==
    /\ getOk
    /\ pc = "failed"
    /\ landing[VIEWSTATE] = NoValue
    /\ landing[VIEWSTATEGENERATOR] # Absent

\* the largest N of the Page$N markers of a response, 1 when it has none
MarkerMax(r) == IF r.markers = <<>> THEN 1 ELSE MaxOf(Range(r.markers))

\* the results table of a response: that of its first panel holding one
HasTablePanel(r) == \E i \in 1..Len(r.panels) : r.panels[i].hasTable
TableOf(r) == r.panels[MinOf({i \in 1..Len(r.panels) : r.panels[i].hasTable})]

\* the header in force for a table
ActiveHeader(t) ==
    IF t.hasHeaderRow /\ Len(t.th) > 0
    THEN ToSeq([i \in 1..Len(t.th) |->
                   IF t.th[i] = NBSP \/ t.th[i] = ""
                   THEN (IF i = 1 THEN "Detail" ELSE "")
                   ELSE t.th[i]],
               Len(t.th))
    ELSE FALLBACK_HEADERS

\* the text of a data cell
CellText(c) == IF c = NBSP THEN "" ELSE c

\* a table row has data cells and as many as the header
RowFits(t, i) == Len(t.trs[i]) > 0 /\ Len(t.trs[i]) = Len(ActiveHeader(t))

\* the rows of a table that fit, in table order, as cell texts
FitIdx(t) == {i \in 1..Len(t.trs) : RowFits(t, i)}
FittingRows(t) ==
    LET idx == FitIdx(t)
        NthFit(n) == CHOOSE i \in idx : Cardinality({j \in idx : j <= i}) = n
        Cells(i) == ToSeq([c \in 1..Len(t.trs[i]) |-> CellText(t.trs[i][c])], Len(t.trs[i]))
    IN  ToSeq([n \in 1..Cardinality(idx) |-> Cells(NthFit(n))], Cardinality(idx))

\* the postback the run issues in k-th place
ExpectedPost(k) ==
    IF k = 1 THEN <<UPDATE_PANEL_TARGET, INITIAL_SEARCH_EVENT_ARGUMENT>>
    ELSE <<GRID_TARGET, <<"Page$", k>> >>

FinishedNormally == pc = "done" /\ df_all # <<>>

\* C4: every postback issued is the one its place calls for (the initial
\* search, then Page$2, Page$3, ... at the grid), never more than M of them,
\* where M is the largest marker of the first response (1 without markers);
\* the loop bound stays M whatever later responses hold; a frame is
\* collected per page, the last one being that of the response last parsed;
\* and a run that ends normally with a non-empty page 1 has issued exactly
\* max(M, 1) postbacks and collected as many frames.
C4_PostbackSequence ==
    /\ \A k \in 1..Len(posts) :
          <<posts[k].target, posts[k].argument>> = ExpectedPost(k)
    /\ pc \in {"loop", "done"} /\ df_all # <<>> =>
          /\ max_page = MarkerMax(first)
          /\ Len(df_all) = Len(posts)
          /\ Len(posts) <= MaxOf({1, MarkerMax(first)})
          /\ HasTablePanel(delta)
          /\ LET t == TableOf(delta)
             IN  /\ df_all[Len(df_all)].columns = ActiveHeader(t)
                 /\ df_all[Len(df_all)].rows = FittingRows(t)
    /\ FinishedNormally =>
          /\ Len(posts) = MaxOf({1, MarkerMax(first)})
          /\ Len(df_all) = Len(posts)

\* a run of MaxPage pages ended normally although its last response named
\* another page count than the first, the first naming its pages out of order
C4_Witness ==
    /\ FinishedNormally
    /\ Len(posts) = MaxPage
    /\ Len(first.markers) > 1
    /\ first.markers[Len(first.markers)] # MaxPage
    /\ delta.markers # <<>>
    /\ MarkerMax(delta) # MarkerMax(first)

\* the first response has a results table none of whose rows fits its header
Page1Empty ==
    /\ HasTablePanel(first)
    /\ \A i \in 1..Len(TableOf(first).trs) : ~RowFits(TableOf(first), i)

\* C5: once an empty page 1 has been parsed, the run is over normally: the
\* output file holds the header and no row, and the initial search is the
\* only postback issued, whatever Page$N markers the response holds.
C5_EmptyPage1ShortCircuits ==
    (nParse >= 1 /\ Page1Empty) =>
        /\ pc = "done"
        /\ failure = "none"
        /\ output.written
        /\ output.csv.header = ActiveHeader(TableOf(first))
        /\ output.csv.lines = <<>>
        /\ Len(posts) = 1
        /\ df_all = <<>>

\* page 1 was empty while its text named MaxPage pages
C5_Witness ==
    /\ pc = "done"
    /\ nParse = 1
    /\ Page1Empty
    /\ first.markers # <<>>
    /\ MarkerMax(first) = MaxPage

\* C6: a failure ends the run for good: a failed run takes no further step
\* (so issues no further request) and has written no output file, however
\* many frames it had collected; the output file is written by runs that
\* did not fail only; no postback is issued twice; and each kind of failure
\* does fail the run: a postback without a response read (non-success
\* status), an error redirect, a text without updatePanel block or without
\* results table are never processed further.
C6_FailureIsFatal ==
    /\ pc = "failed" =>
          /\ failure # "none"
          /\ output = NoOutput
          /\ ~ENABLED Next
    /\ output.written => (pc = "done" /\ failure = "none")
    /\ \A i, j \in 1..Len(posts) :
          i # j => <<posts[i].target, posts[i].argument>> # <<posts[j].target, posts[j].argument>>
    /\ (pc # "start" /\ ~getOk) => (pc = "failed" /\ failure = "http_get")
    /\ Len(posts) # Len(received) =>
          (pc = "failed" /\ failure = "http_post" /\ Len(posts) = Len(received) + 1)
    /\ (received # <<>> /\ pc \notin {"check", "failed"}) => ~HoldsErrorRedirect(delta)
    /\ pc \in {"pages", "loop", "done"} => HasTablePanel(delta)

\* a later page had no results table after rows had been collected
C6_Witness ==
    /\ pc = "failed"
    /\ failure = "no_results_table"
    /\ p >= 2
    /\ df_all # <<>>
    /\ df_all[1].rows # <<>>
    /\ output = NoOutput

\* a row of a page frame as a Record: column name -> value
RecordOf(df, r) ==
    [c \in Range(df.columns) |-> df.rows[r][MinOf({j \in 1..Len(df.columns) : df.columns[j] = c})]]

\* the Records of the collected pages, in page order then row order
PageRowIds == {<<g, r>> : g \in 1..Len(df_all), r \in 1..MaxOf({0} \cup {Len(df_all[k].rows) : k \in 1..Len(df_all)})}
RowIds == {id \in PageRowIds : id[2] <= Len(df_all[id[1]].rows)}
Before(a, b) == a[1] < b[1] \/ (a[1] = b[1] /\ a[2] < b[2])
RecordAt(id) == RecordOf(df_all[id[1]], id[2])

\* the rows that repeat no earlier Record
FirstOccurrences ==
    LET ids == RowIds
    IN  {id \in ids : \A e \in ids : Before(e, id) => RecordAt(e) # RecordAt(id)}
RankIn(S, id) == Cardinality({e \in S : Before(e, id)}) + 1

\* a Record as a line under a header: a column it lacks is written empty
LineOf(rec, header) ==
    ToSeq([j \in 1..Len(header) |-> IF header[j] \in DOMAIN rec THEN rec[header[j]] ELSE ""],
          Len(header))

\* C7: the lines of the file a normal run writes are the Records of the
\* collected pages, in page order then row order, less every Record equal to
\* an earlier one of any page: one line per distinct Record, at the rank of
\* its first occurrence, every column of every Record being in the header.
C7_AggregateIsDedupedConcatenation ==
    FinishedNormally =>
        LET kept == FirstOccurrences
        IN  /\ output.written
            /\ Len(output.csv.lines) = Cardinality(kept)
            /\ \A id \in kept :
                  /\ DOMAIN RecordAt(id) \subseteq Range(output.csv.header)
                  /\ output.csv.lines[RankIn(kept, id)] = LineOf(RecordAt(id), output.csv.header)

\* a normal run over several pages in which a row of a later page repeats a
\* row of an earlier page, and a page repeats a row of its own
C7_Witness ==
    /\ FinishedNormally
    /\ Len(df_all) >= 2
    /\ \E a \in RowIds, b \in RowIds :
          a[1] < b[1] /\ RecordAt(a) = RecordAt(b) /\ df_all[a[1]].columns = df_all[b[1]].columns
    /\ \E a \in RowIds, b \in RowIds :
          a[1] = b[1] /\ a[2] < b[2] /\ RecordAt(a) = RecordAt(b)
    /\ Len(output.csv.lines) < Cardinality(RowIds)

\* the header of the first page parsed
FirstHeader == IF df_all # <<>> THEN df_all[1].columns ELSE ActiveHeader(TableOf(first))

\* C9 as stated: the header written is the header of the first page parsed.
C9_HeaderIsFirstPageHeader ==
    (pc = "done" /\ output.written) => output.csv.header = FirstHeader

\* where a column name first appears: page, then position in its header
FirstSeen(c) ==
    LET g == MinOf({k \in 1..Len(df_all) : c \in Range(df_all[k].columns)})
    IN  <<g, MinOf({j \in 1..Len(df_all[g].columns) : df_all[g].columns[j] = c})>>

\* C9 amended: the header written starts with the header of the first page
\* parsed, followed by the column names of later pages that are not yet in
\* it, each once, in order of first appearance; so it is the first page's
\* header exactly when every later page's column names are all in it.
C9_HeaderExtendsFirstPageHeader ==
    (pc = "done" /\ output.written) =>
        LET h == output.csv.header
            n == Len(FirstHeader)
        IN  /\ Len(h) >= n
            /\ \A i \in 1..n : h[i] = FirstHeader[i]
            /\ df_all # <<>> =>
                  /\ Range(h) = UNION {Range(df_all[k].columns) : k \in 1..Len(df_all)}
                  /\ \A i, j \in 1..Len(h) : i < j => Before(FirstSeen(h[i]), FirstSeen(h[j]))
                  /\ (h = FirstHeader) <=>
                        \A k \in 1..Len(df_all) : Range(df_all[k].columns) \subseteq Range(FirstHeader)

\* a normal run whose later page was parsed with the fallback schema while
\* page 1 declared its own header
C9_Witness ==
    /\ FinishedNormally
    /\ Len(df_all) >= 2
    /\ df_all[1].columns # FALLBACK_HEADERS
    /\ \E k \in 2..Len(df_all) : df_all[k].columns = FALLBACK_HEADERS
    /\ output.csv.header # df_all[1].columns

\* the value a response carries for a token: that of its first hiddenField
\* block of that name, empty when it has none
Carried(r, name) ==
    LET I == {i \in 1..Len(r.fields) : r.fields[i].name = name}
    IN  IF I = {} THEN "" ELSE r.fields[MinOf(I)].value

\* the value of a token on the landing page, empty when it had none
LandingValue(name) == IF LandingLacks(name) THEN "" ELSE landing[name][2]

\* the value of a token once the first n responses have been taken in
TokenAfter(name, n) ==
    LET J == {j \in 1..n : Carried(received[j], name) # ""}
    IN  IF name = VIEWSTATEGENERATOR \/ J = {} THEN LandingValue(name)
        ELSE Carried(received[MaxOf(J)], name)

\* C10: refreshes and postbacks alternate, one refresh per response read;
\* the k-th postback carries for each mutable token the non-empty value of
\* the latest earlier response that had one, else the landing-page value
\* (empty when the landing page had none), and for __VIEWSTATEGENERATOR the
\* landing-page value; the session state holds these values in between.
C10_TokensThreadedForward ==
    /\ nRefresh <= Len(posts)
    /\ Len(posts) <= nRefresh + 1
    /\ nRefresh <= Len(received)
    /\ \A k \in 1..Len(posts) : \A name \in Range(HiddenFieldNames) :
          posts[k].tokens[name] = TokenAfter(name, k - 1)
    /\ pc \notin {"start", "failed"} =>
          \A name \in Range(HiddenFieldNames) : DictGet(hidden, name) = TokenAfter(name, nRefresh)

\* the third postback carries a __VIEWSTATE that the first response set and
\* the second response did not resend, and a generator that a response had
\* tried to replace
C10_Witness ==
    /\ Len(posts) >= 3
    /\ Carried(received[1], VIEWSTATE) # ""
    /\ Carried(received[2], VIEWSTATE) = ""
    /\ posts[3].tokens[VIEWSTATE] = Carried(received[1], VIEWSTATE)
    /\ posts[3].tokens[VIEWSTATE] # LandingValue(VIEWSTATE)
    /\ \E j \in 1..2 : Carried(received[j], VIEWSTATEGENERATOR) \notin {"", posts[3].tokens[VIEWSTATEGENERATOR]}

\* whether a response has a hiddenField block of that name
HasBlock(r, name) == \E i \in 1..Len(r.fields) : r.fields[i].name = name

\* C2: a step changes no token of the session state except to a non-empty
\* value that the response carries for it in a hiddenField block, and only
\* for the three mutable tokens; a token the response has no block for, or
\* an empty value for (the value of a token being that of its first block),
\* keeps its prior value; no token of the session state is removed.
C2_RefreshKeepsTokens ==
    [][ \A name \in Range(HiddenFieldNames) :
          LET was == name \in DOMAIN hidden
              is == name \in DOMAIN hidden'
              changed == (was # is) \/ (was /\ is /\ hidden'[name] # hidden[name])
          IN  /\ was => is
              /\ changed =>
                    /\ name \in Range(RefreshKeys)
                    /\ hidden'[name] # ""
                    /\ \E i \in 1..Len(delta.fields) : delta.fields[i] = Field(name, hidden'[name])
              /\ (~HasBlock(delta, name) \/ Carried(delta, name) = "") => ~changed
      ]_vars

\* a refresh has run on a response with an empty __VIEWSTATE value and a
\* non-empty __EVENTVALIDATION value: the former is still non-empty, the
\* latter is the response's
C2_Witness ==
    /\ pc = "parse"
    /\ nRefresh = 1
    /\ HasBlock(delta, VIEWSTATE)
    /\ Carried(delta, VIEWSTATE) = ""
    /\ hidden[VIEWSTATE] # ""
    /\ HasBlock(delta, VIEWSTATEENCRYPTED)
    /\ Carried(delta, VIEWSTATEENCRYPTED) # ""
    /\ hidden[VIEWSTATEENCRYPTED] = Carried(delta, VIEWSTATEENCRYPTED)

\* the frame of the response last parsed
LastFrame ==
    IF df_all = <<>> THEN DataFrame(output.csv.lines, output.csv.header)
    ELSE df_all[Len(df_all)]

\* C8: a response holding a results table is parsed into a frame, never
\* refused; the frame has as many columns as the declared header row has
\* cells, or is the eight-column fallback schema when there is no header row
\* with cells; every row of the frame has that many values; and its rows
\* are, in table order and cell for cell, the table rows with data cells
\* whose cell count is the header's: no other row is in it, none is padded
\* or cut.
C8_FrameMatchesHeader ==
    (nParse >= 1 /\ HasTablePanel(delta)) =>
        /\ pc \in {"pages", "loop", "done"}
        /\ LET t == TableOf(delta)
               df == LastFrame
               declared == t.hasHeaderRow /\ Len(t.th) > 0
           IN  /\ declared => Len(df.columns) = Len(t.th)
               /\ ~declared => df.columns = FALLBACK_HEADERS
               /\ \A r \in 1..Len(df.rows) : Len(df.rows[r]) = Len(df.columns)
               /\ df.rows = FittingRows(t)

\* a table with a declared header was parsed: one of its rows fits, one has
\* fewer cells and one has more
C8_Witness ==
    /\ nParse = 1
    /\ pc = "pages"
    /\ HasTablePanel(delta)
    /\ LET t == TableOf(delta)
       IN  /\ t.hasHeaderRow
           /\ Len(t.th) = 2
           /\ Len(t.trs) = 2
           /\ Len(t.trs[1]) = 3
           /\ Len(t.trs[2]) = 2
           /\ Len(df_all[1].rows) = 1

============================================================================
